---- MODULE Spec2Model ----
(***************************************************************************)
(* The VPN service core: the server registry (ServerManager), the peer     *)
(* store (PeerManager) and the connection orchestrator (VPNManager).       *)
(*                                                                         *)
(* Handlers are modelled as whole calls.  VPNManager holds its mutex over  *)
(* a whole Connect/Disconnect, PeerManager holds peerMutex over a whole    *)
(* create/remove, ServerManager holds its mutex over each registry         *)
(* operation, so in the sequential specifications below a call is one      *)
(* step.                                                                   *)
(***************************************************************************)
EXTENDS Integers, Sequences, FiniteSets, TLC

VARIABLES
    servers,        \* ServerManager.servers: map id -> Server
    staticPeers,    \* records under WireGuard.ConfigDir/<user>/<peer>/metadata.json
    dynamicPeers,   \* records under WireGuard.DynamicPeerDir/<user>/<peer>/metadata.json
    nextId,         \* the next identifier utils.GenerateUUID hands out
    last,           \* the last call made and what it returned
    mu,             \* ServerManager.mutex, a sync.RWMutex
    pc,             \* where each goroutine using ServerManager.mutex stands
    created,        \* the peer stores as they were before the last CreatePeer
    config,         \* a template, a placeholder map and the texts generated from them
    vmMutex,        \* VPNManager.mutex, a sync.RWMutex
    peerMutex,      \* the package's peerMutex, a sync.Mutex: the goroutine holding it
    dynamicDir,     \* the directories of wgutils' dynamic peers, with their files
    metrics         \* MetricsManager: its collection goroutine, ticker, log file, Close calls

vars == <<servers, staticPeers, dynamicPeers, nextId, last, mu, pc, created, config,
          vmMutex, peerMutex, dynamicDir, metrics>>

\* The mutexes of VPNManager and PeerManager, the store of wgutils and the
\* MetricsManager.
more == <<vmMutex, peerMutex, dynamicDir, metrics>>

\* The variables the calls of the sequential specifications leave alone.
aux == <<mu, pc, created, config, more>>

---------------------------------------------------------------------------
(* Bounds *)

\* Number of peer identifiers ever generated.
MaxPeers == 2

\* Capacity of the servers of initializeServers (100 in the source), scaled.
Capacity == 1

\* Largest load drawn for a registry handed to GetOptimalServer.
MaxLoad == 3

Users == {"alice", "bob"}

\* The server ids of the model, three of the four of initializeServers.
ServerIds == {"ap-northeast-1", "us-east-1", "us-west-1"}

\* The fleet NewServerManager registers, scaled to one server that is online
\* and the one that is in maintenance; us-west-1 is a valid id that is never
\* registered there.
FleetIds == {"ap-northeast-1", "us-east-1"}

Statuses == {"online", "offline", "maintenance"}

PeerIds == 1..MaxPeers

---------------------------------------------------------------------------
(* ServerManager *)

CountryOf(id) ==
    CASE id = "us-east-1" -> "United States"
      [] id = "us-west-1" -> "United States"
      [] id = "ap-northeast-1" -> "Japan"
      [] OTHER -> "Ireland"

initializeServers ==
    [id \in FleetIds |->
        [status   |-> IF id = "ap-northeast-1" THEN "maintenance" ELSE "online",
         load     |-> 0,
         capacity |-> Capacity,
         country  |-> CountryOf(id)]]

\* UpdateServerLoad stores the given load; its error (unknown id) leaves the
\* registry as it is and is ignored by VPNManager.
UpdateServerLoad(reg, id, load) ==
    IF id \in DOMAIN reg THEN [reg EXCEPT ![id].load = load] ELSE reg

\* The orders in which a range over the map sm.servers may visit its keys.
Orders(ids) ==
    {o \in [1..Cardinality(ids) -> ids] :
        \A i, j \in 1..Cardinality(ids) : i # j => o[i] # o[j]}

IsInCountry(reg, country, id) == reg[id].country = country

IsOnline(reg, id) == reg[id].status = "online"

\* GetServersByCountry appends every server of the country, whatever its status.
GetServersByCountry(reg, country, order) ==
    SelectSeq(order, LAMBDA id : IsInCountry(reg, country, id))

OnlineServers(reg, order) ==
    SelectSeq(order, LAMBDA id : IsOnline(reg, id))

\* The candidates of GetOptimalServer: the servers of the country when one is
\* given and has servers, the online servers otherwise.
Candidates(reg, country, order) ==
    IF country # ""
    THEN IF Len(GetServersByCountry(reg, country, order)) = 0
         THEN OnlineServers(reg, order)
         ELSE GetServersByCountry(reg, country, order)
    ELSE OnlineServers(reg, order)

\* LowestLoadStep with the comparison of the loads turned round.
LowestLoadStepHigher(reg, id, optimal, lowestLoad) ==
    IF reg[id].load >= reg[id].capacity
    THEN <<optimal, lowestLoad>>
    ELSE IF lowestLoad = -1 \/ reg[id].load > lowestLoad
         THEN <<id, reg[id].load>>
         ELSE <<optimal, lowestLoad>>

\* One pass of the loop that keeps the candidate of lowest load: a server at
\* capacity is skipped, a server replaces the kept one when none is kept yet
\* (lowestLoad is -1) or its load is lower.
LowestLoadStep(reg, id, optimal, lowestLoad) ==
    IF reg[id].load >= reg[id].capacity
    THEN <<optimal, lowestLoad>>
    ELSE IF lowestLoad = -1 \/ reg[id].load < lowestLoad
         THEN <<id, reg[id].load>>
         ELSE <<optimal, lowestLoad>>

RECURSIVE LowestLoadLoop(_, _, _, _)
LowestLoadLoop(reg, candidates, optimal, lowestLoad) ==
    IF candidates = <<>>
    THEN optimal
    ELSE LET step == LowestLoadStep(reg, Head(candidates), optimal, lowestLoad)
         IN  LowestLoadLoop(reg, Tail(candidates), step[1], step[2])

\* GetOptimalServer's result: the error and the id of the server returned
\* ("" for nil).
GetOptimalServerCall(reg, country, order) ==
    LET candidates == Candidates(reg, country, order)
        optimal == LowestLoadLoop(reg, candidates, "", -1)
    IN  IF Len(candidates) = 0
        THEN [err |-> "no available servers", server |-> ""]
        ELSE IF optimal = ""
        THEN [err |-> "all servers are at capacity", server |-> ""]
        ELSE [err |-> "", server |-> optimal]

---------------------------------------------------------------------------
(* PeerManager *)

\* generateKeyPair returns these two strings on every call.
generateKeyPair ==
    [privateKey |-> "YAnV4SnPYEA+jS6nQtxF5lS3jj0gqXBVVeP9tz/bP2A=",
     publicKey  |-> "zzz3UBcqiV9RsYCzJWOU5VVVNk3VtQECQXXPnQiEfQQ="]

\* allocateIP returns this address on every call.
allocateIP == "10.0.0.2/32"

NoPeer ==
    [id |-> 0, userId |-> "", serverId |-> "", publicKey |-> "", ip |-> "",
     dynamic |-> FALSE]

PeerConfig(peerID, userID, serverID, dynamic) ==
    [id |-> peerID, userId |-> userID, serverId |-> serverID,
     publicKey |-> generateKeyPair.publicKey, ip |-> allocateIP,
     dynamic |-> dynamic]

AllPeers == staticPeers \cup dynamicPeers

Lookup(store, userID, peerID) ==
    IF \E p \in store : p.userId = userID /\ p.id = peerID
    THEN CHOOSE p \in store : p.userId = userID /\ p.id = peerID
    ELSE NoPeer

getPeerConfig(userID, peerID) == Lookup(staticPeers, userID, peerID)

getDynamicPeerConfig(userID, peerID) == Lookup(dynamicPeers, userID, peerID)

\* GetPeer tries the static namespace first, then the dynamic one.
GetPeer(userID, peerID) ==
    IF getPeerConfig(userID, peerID) # NoPeer
    THEN getPeerConfig(userID, peerID)
    ELSE getDynamicPeerConfig(userID, peerID)

\* What the environment does to a Connect: nothing, or the template file of
\* the device type cannot be read.
ConnectFaults == {"none", "template"}

\* What the environment does to a PeerManager call made on its own: nothing, or
\* the interface update fails.
PeerFaults == {"none", "apply"}

\* applyConfiguration's error; the interface update is an external command
\* (wg syncconf / wg-quick), whose failure is the fault "apply".
applyConfiguration(fault) ==
    IF fault = "apply" THEN "failed to apply configuration" ELSE ""

\* getConfigTemplate reads the template file of the device type; GenerateConfig
\* returns its error.
GenerateConfig(fault) ==
    IF fault = "template" THEN "failed to get config template" ELSE ""

\* CreatePeer: new id, key pair, address, record saved, then the interface
\* update; an error of the update is returned as it is, the saved record stays.
CreatePeerCall(userID, serverID, fault) ==
    LET peer == PeerConfig(nextId, userID, serverID, FALSE)
        saved == staticPeers \cup {peer}
    IN  [err |-> applyConfiguration(fault), peer |-> peer, store |-> saved]

CreateDynamicPeerCall(userID, serverID, fault) ==
    LET peer == PeerConfig(nextId, userID, serverID, TRUE)
        saved == dynamicPeers \cup {peer}
    IN  [err |-> applyConfiguration(fault), peer |-> peer, store |-> saved]

\* RemovePeerCall with the deletion of the record left out.
RemovePeerCallKeepsRecord(userID, peerID, fault) ==
    LET peer == getPeerConfig(userID, peerID)
    IN  IF peer = NoPeer
        THEN [err |-> "failed to get peer config", store |-> staticPeers]
        ELSE [err |-> applyConfiguration(fault), store |-> staticPeers]

\* RemovePeer: looks the peer up in the static namespace only, deletes the
\* record, then updates the interface.
RemovePeerCall(userID, peerID, fault) ==
    LET peer == getPeerConfig(userID, peerID)
        deleted == staticPeers \ {peer}
    IN  IF peer = NoPeer
        THEN [err |-> "failed to get peer config", store |-> staticPeers]
        ELSE [err |-> applyConfiguration(fault), store |-> deleted]

RemoveDynamicPeerCall(userID, peerID, fault) ==
    LET peer == getDynamicPeerConfig(userID, peerID)
        deleted == dynamicPeers \ {peer}
    IN  IF peer = NoPeer
        THEN [err |-> "failed to get dynamic peer config", store |-> dynamicPeers]
        ELSE [err |-> applyConfiguration(fault), store |-> deleted]

---------------------------------------------------------------------------
(* The record of the last call *)

Return(op, err, server, peer, country) ==
    [op |-> op, err |-> err, server |-> server, peer |-> peer, country |-> country]

NoCall == Return("none", "", "", 0, "")

\* sync.RWMutex: the number of readers holding it, and its writer: none, one
\* that has announced itself in Lock and waits for the readers to leave, or one
\* that holds it.
Unlocked == [readers |-> 0, writer |-> "none"]

\* The goroutines that use ServerManager.mutex: two requests that select a
\* server, and MonitorServers.
Selectors == {"request1", "request2"}

Goroutines == Selectors \cup {"monitor"}

\* A goroutine outside its call; inside, at is the statement it is about to
\* execute and country the argument of GetOptimalServer.
Idle == [at |-> "idle", country |-> ""]

NoCreate == [peer |-> 0, static |-> {}, dynamic |-> {}]

NoConfig == [template |-> <<>>, replacements |-> <<>>, out |-> <<>>]

\* No file of a dynamic peer.
NoDynamicDir == {}

\* The goroutines that call MetricsManager.Close.
Closers == {"closer1", "closer2", "closer3"}

\* NewMetricsManager: with metrics enabled the log file is open, the ticker
\* runs and the collection goroutine waits in its select; with metrics
\* disabled none of them exists.
NewMetricsManager(isEnabled) ==
    [isEnabled |-> isEnabled,
     collector |-> IF isEnabled THEN "select" ELSE "none",
     ticker    |-> IF isEnabled THEN "running" ELSE "none",
     logFile   |-> IF isEnabled THEN "open" ELSE "none",
     callers   |-> [c \in Closers |-> "idle"]]

\* A MetricsManager that is not in use.
NoMetrics == NewMetricsManager(FALSE)

\* The mutexes unlocked, the store of wgutils empty, no MetricsManager.
InitMore ==
    /\ vmMutex = Unlocked
    /\ peerMutex = ""
    /\ dynamicDir = NoDynamicDir
    /\ metrics = NoMetrics

\* The mutex unlocked, every goroutine outside its call, nothing created or
\* generated yet.
InitAux ==
    /\ mu = Unlocked
    /\ pc = [g \in Goroutines |-> Idle]
    /\ created = NoCreate
    /\ config = NoConfig
    /\ InitMore

Init ==
    /\ servers = initializeServers
    /\ staticPeers = {}
    /\ dynamicPeers = {}
    /\ nextId = 1
    /\ last = NoCall
    /\ InitAux

---------------------------------------------------------------------------
(* PeerManager's public calls *)

CreatePeer(userID, serverID, fault) ==
    /\ nextId <= MaxPeers
    /\ LET c == CreatePeerCall(userID, serverID, fault) IN
        /\ staticPeers' = c.store
        /\ last' = Return("CreatePeer", c.err, serverID, c.peer.id, "")
    /\ nextId' = nextId + 1
    /\ created' = [peer |-> nextId, static |-> staticPeers, dynamic |-> dynamicPeers]
    /\ UNCHANGED <<servers, dynamicPeers, mu, pc, config, more>>

CreateDynamicPeer(userID, serverID, fault) ==
    /\ nextId <= MaxPeers
    /\ LET c == CreateDynamicPeerCall(userID, serverID, fault) IN
        /\ dynamicPeers' = c.store
        /\ last' = Return("CreateDynamicPeer", c.err, serverID, c.peer.id, "")
    /\ nextId' = nextId + 1
    /\ created' = [peer |-> nextId, static |-> staticPeers, dynamic |-> dynamicPeers]
    /\ UNCHANGED <<servers, staticPeers, mu, pc, config, more>>

RemovePeer(userID, peerID, fault) ==
    /\ LET r == RemovePeerCall(userID, peerID, fault) IN
        /\ staticPeers' = r.store
        /\ last' = Return("RemovePeer", r.err, "", peerID, "")
    /\ UNCHANGED <<servers, dynamicPeers, nextId, aux>>

RemoveDynamicPeer(userID, peerID, fault) ==
    /\ LET r == RemoveDynamicPeerCall(userID, peerID, fault) IN
        /\ dynamicPeers' = r.store
        /\ last' = Return("RemoveDynamicPeer", r.err, "", peerID, "")
    /\ UNCHANGED <<servers, staticPeers, nextId, aux>>

NextPeers ==
    \/ \E u \in Users, s \in ServerIds, f \in PeerFaults : CreatePeer(u, s, f)
    \/ \E u \in Users, s \in ServerIds, f \in PeerFaults : CreateDynamicPeer(u, s, f)
    \/ \E u \in Users, p \in PeerIds, f \in PeerFaults : RemovePeer(u, p, f)
    \/ \E u \in Users, p \in PeerIds, f \in PeerFaults : RemoveDynamicPeer(u, p, f)

\* PeerManager called directly, in any order.
SpecPeers == Init /\ [][NextPeers]_vars

---------------------------------------------------------------------------
(* ServerManager's registry calls *)

UpdateServerStatus(id, status) ==
    /\ IF id \in DOMAIN servers
       THEN /\ servers' = [servers EXCEPT ![id].status = status]
            /\ last' = Return("UpdateServerStatus", "", id, 0, "")
       ELSE /\ UNCHANGED servers
            /\ last' = Return("UpdateServerStatus", "server not found", id, 0, "")
    /\ UNCHANGED <<staticPeers, dynamicPeers, nextId, aux>>

\* AddServer rejects an id that is registered and stores the server otherwise.
AddServer(id, server) ==
    /\ IF id \in DOMAIN servers
       THEN /\ UNCHANGED servers
            /\ last' = Return("AddServer", "server already exists", id, 0, "")
       ELSE /\ servers' = [i \in DOMAIN servers \cup {id} |->
                              IF i = id THEN server ELSE servers[i]]
            /\ last' = Return("AddServer", "", id, 0, "")
    /\ UNCHANGED <<staticPeers, dynamicPeers, nextId, aux>>

\* RemoveServer deletes the entry of a registered id; it looks at nothing else.
RemoveServer(id) ==
    /\ IF id \notin DOMAIN servers
       THEN /\ UNCHANGED servers
            /\ last' = Return("RemoveServer", "server not found", id, 0, "")
       ELSE /\ servers' = [i \in DOMAIN servers \ {id} |-> servers[i]]
            /\ last' = Return("RemoveServer", "", id, 0, "")
    /\ UNCHANGED <<staticPeers, dynamicPeers, nextId, aux>>

\* The loop of checkServerStatus: every registered server is set online when
\* utils.RandomBool(0.95) says so (the set up) and offline otherwise.
Probe(reg, up) ==
    [i \in DOMAIN reg |->
        [reg[i] EXCEPT !.status = IF i \in up THEN "online" ELSE "offline"]]

\* One health-check cycle, under the write lock.
checkServerStatus(up) ==
    /\ servers' = Probe(servers, up)
    /\ last' = Return("checkServerStatus", "", "", 0, "")
    /\ UNCHANGED <<staticPeers, dynamicPeers, nextId, aux>>

---------------------------------------------------------------------------
(* VPNManager *)

\* ValidateServer without the check of the status.
ValidateServerAnyStatus(reg, serverID) ==
    IF serverID \notin DOMAIN reg THEN "server not found" ELSE ""

\* The validation Connect and DynamicConnect start with: GetServer finds the
\* server, and its Status is "online".
ValidateServer(reg, serverID) ==
    IF serverID \notin DOMAIN reg
    THEN "server not found"
    ELSE IF reg[serverID].status # "online"
    THEN "server is not online"
    ELSE ""

\* ConnectLoad with the sign of the step slipped.
ConnectLoadDecrement(server) == server.load - 1

\* The load Connect and DynamicConnect hand to UpdateServerLoad.
ConnectLoad(server) == server.load + 1

Connect(userID, serverID, fault) ==
    /\ UNCHANGED aux
    /\ IF ValidateServer(servers, serverID) # ""
       THEN /\ last' = Return("Connect", ValidateServer(servers, serverID), serverID, 0, "")
            /\ UNCHANGED <<servers, staticPeers, dynamicPeers, nextId>>
       ELSE /\ nextId <= MaxPeers
            /\ nextId' = nextId + 1
            /\ UNCHANGED dynamicPeers
            /\ LET c == CreatePeerCall(userID, serverID, fault) IN
                /\ staticPeers' = c.store
                /\ IF c.err # ""
                   THEN /\ last' = Return("Connect", "failed to create peer", serverID, c.peer.id, "")
                        /\ UNCHANGED servers
                   ELSE IF GenerateConfig(fault) # ""
                   THEN /\ last' = Return("Connect", "failed to generate configuration", serverID, c.peer.id, "")
                        /\ UNCHANGED servers
                   ELSE /\ servers' = UpdateServerLoad(servers, serverID, ConnectLoad(servers[serverID]))
                        /\ last' = Return("Connect", "", serverID, c.peer.id, "")

DynamicConnect(userID, serverID, fault) ==
    /\ UNCHANGED aux
    /\ IF ValidateServer(servers, serverID) # ""
       THEN /\ last' = Return("DynamicConnect", ValidateServer(servers, serverID), serverID, 0, "")
            /\ UNCHANGED <<servers, staticPeers, dynamicPeers, nextId>>
       ELSE /\ nextId <= MaxPeers
            /\ nextId' = nextId + 1
            /\ UNCHANGED staticPeers
            /\ LET c == CreateDynamicPeerCall(userID, serverID, fault) IN
                /\ dynamicPeers' = c.store
                /\ IF c.err # ""
                   THEN /\ last' = Return("DynamicConnect", "failed to create dynamic peer", serverID, c.peer.id, "")
                        /\ UNCHANGED servers
                   ELSE IF GenerateConfig(fault) # ""
                   THEN /\ last' = Return("DynamicConnect", "failed to generate configuration", serverID, c.peer.id, "")
                        /\ UNCHANGED servers
                   ELSE /\ servers' = UpdateServerLoad(servers, serverID, ConnectLoad(servers[serverID]))
                        /\ last' = Return("DynamicConnect", "", serverID, c.peer.id, "")

\* Disconnect: GetPeer (either namespace), RemovePeer (static namespace), then
\* UpdateServerLoad(peer.ServerID, 0).
Disconnect(userID, peerID, fault) ==
    /\ UNCHANGED aux
    /\ LET peer == GetPeer(userID, peerID) IN
       IF peer = NoPeer
       THEN /\ last' = Return("Disconnect", "peer not found", "", peerID, "")
            /\ UNCHANGED <<servers, staticPeers, dynamicPeers, nextId>>
       ELSE LET r == RemovePeerCall(userID, peerID, fault) IN
            /\ staticPeers' = r.store
            /\ UNCHANGED <<dynamicPeers, nextId>>
            /\ IF r.err # ""
               THEN /\ last' = Return("Disconnect", "failed to remove peer", peer.serverId, peerID, "")
                    /\ UNCHANGED servers
               ELSE /\ servers' = UpdateServerLoad(servers, peer.serverId, 0)
                    /\ last' = Return("Disconnect", "", peer.serverId, peerID, "")

DynamicDisconnect(userID, peerID, fault) ==
    /\ UNCHANGED aux
    /\ LET peer == GetPeer(userID, peerID) IN
       IF peer = NoPeer
       THEN /\ last' = Return("DynamicDisconnect", "peer not found", "", peerID, "")
            /\ UNCHANGED <<servers, staticPeers, dynamicPeers, nextId>>
       ELSE LET r == RemoveDynamicPeerCall(userID, peerID, fault) IN
            /\ dynamicPeers' = r.store
            /\ UNCHANGED <<staticPeers, nextId>>
            /\ IF r.err # ""
               THEN /\ last' = Return("DynamicDisconnect", "failed to remove dynamic peer", peer.serverId, peerID, "")
                    /\ UNCHANGED servers
               ELSE /\ servers' = UpdateServerLoad(servers, peer.serverId, 0)
                    /\ last' = Return("DynamicDisconnect", "", peer.serverId, peerID, "")

\* GetPeers: the user's static peers, then the user's dynamic peers.
GetPeers(userID) == {p \in AllPeers : p.userId = userID}

\* GetStatus: the user's peers, each with the name of its server; a peer whose
\* server GetServer does not find makes the whole call fail.
GetStatusCall(userID) ==
    IF \E p \in GetPeers(userID) : p.serverId \notin DOMAIN servers
    THEN [err |-> "server not found", peers |-> {}]
    ELSE [err |-> "", peers |-> {p.id : p \in GetPeers(userID)}]

\* StatusHandler: an error response when GetStatus fails, and otherwise
\* Connected: len(peers) > 0 with the peers.
StatusHandler(userID) ==
    LET status == GetStatusCall(userID)
    IN  IF status.err # ""
        THEN [err |-> status.err, connected |-> FALSE, peers |-> {}]
        ELSE [err |-> "", connected |-> status.peers # {}, peers |-> status.peers]

GetStatus(userID) ==
    /\ last' = Return("GetStatus", GetStatusCall(userID).err, "", 0, "")
    /\ UNCHANGED <<servers, staticPeers, dynamicPeers, nextId, aux>>

\* GetConfig with the peer's record deleted once its text is generated.
GetConfigDeletesPeer(userID, peerID, fault) ==
    /\ last' = Return("GetConfig", "", "", peerID, "")
    /\ staticPeers' = staticPeers \ {GetPeer(userID, peerID)}
    /\ dynamicPeers' = dynamicPeers \ {GetPeer(userID, peerID)}
    /\ UNCHANGED <<servers, nextId, aux>>

\* GetConfig: GetPeer, then GenerateConfig.
GetConfig(userID, peerID, fault) ==
    /\ last' = Return("GetConfig",
                      IF GetPeer(userID, peerID) = NoPeer
                      THEN "peer not found"
                      ELSE IF GenerateConfig(fault) # ""
                      THEN "failed to generate configuration"
                      ELSE "",
                      "", peerID, "")
    /\ UNCHANGED <<servers, staticPeers, dynamicPeers, nextId, aux>>

NextConn ==
    \/ \E u \in Users, s \in ServerIds : Connect(u, s, "none")
    \/ \E u \in Users, s \in ServerIds : DynamicConnect(u, s, "none")
    \/ \E u \in Users, p \in PeerIds : Disconnect(u, p, "none")
    \/ \E u \in Users, p \in PeerIds : DynamicDisconnect(u, p, "none")
    \/ \E up \in SUBSET DOMAIN servers : checkServerStatus(up)

\* Sequences of Connect, DynamicConnect, Disconnect and DynamicDisconnect on
\* the initial fleet, with no fault injected, while MonitorServers runs its
\* health-check cycles.
SpecConn == Init /\ [][NextConn]_vars

\* The servers a caller may add.
NewServers(id) ==
    {[status |-> st, load |-> 0, capacity |-> Capacity, country |-> CountryOf(id)] :
        st \in Statuses}

Next ==
    \/ \E u \in Users, s \in ServerIds, f \in ConnectFaults : Connect(u, s, f)
    \/ \E u \in Users, s \in ServerIds, f \in ConnectFaults : DynamicConnect(u, s, f)
    \/ \E u \in Users, p \in PeerIds : Disconnect(u, p, "none")
    \/ \E u \in Users, p \in PeerIds : DynamicDisconnect(u, p, "none")
    \/ \E u \in Users : GetStatus(u)
    \/ \E u \in Users, p \in PeerIds, f \in ConnectFaults : GetConfig(u, p, f)
    \/ \E s \in ServerIds, st \in Statuses : UpdateServerStatus(s, st)
    \/ \E s \in FleetIds : \E server \in NewServers(s) : AddServer(s, server)
    \/ \E s \in ServerIds : RemoveServer(s)
    \/ \E up \in SUBSET DOMAIN servers : checkServerStatus(up)

\* The API's calls and the health-check cycle, in any order; a Connect may find
\* its template file unreadable.
Spec == Init /\ [][Next]_vars

NextView ==
    \/ \E u \in Users, s \in ServerIds : Connect(u, s, "none")
    \/ \E u \in Users, s \in ServerIds : DynamicConnect(u, s, "none")
    \/ \E s \in ServerIds : RemoveServer(s)
    \/ \E u \in Users : GetStatus(u)
    \/ \E u \in Users, p \in PeerIds, f \in ConnectFaults : GetConfig(u, p, f)

\* The read-only calls GetStatus and GetConfig among connects and removals of
\* servers, which make them succeed and fail.
SpecView == Init /\ [][NextView]_vars

---------------------------------------------------------------------------
(* Server selection on an arbitrary registry *)

GetOptimalServer(country, order) ==
    /\ LET r == GetOptimalServerCall(servers, country, order) IN
        last' = Return("GetOptimalServer", r.err, r.server, 0, country)
    /\ UNCHANGED <<servers, staticPeers, dynamicPeers, nextId, aux>>

\* The preferred locations a caller passes: none, a country with servers, a
\* country with none.
CountryInputs == {"", "United States", "Japan", "Ireland"}

\* The capacities of the registries drawn: the fleet's, and the 10 of the
\* example {A: 3/10, B: 1/10, C: 0/10}.
Capacities == {Capacity, 10}

Registries ==
    UNION {[ids -> [status : Statuses, load : 0..MaxLoad, capacity : Capacities,
                    country : {CountryOf(i) : i \in ServerIds}]] :
           ids \in SUBSET ServerIds}

InitSel ==
    /\ servers \in {reg \in Registries :
                       \A i \in DOMAIN reg : reg[i].country = CountryOf(i)}
    /\ staticPeers = {}
    /\ dynamicPeers = {}
    /\ nextId = 1
    /\ last = NoCall
    /\ InitAux

NextSel ==
    \E country \in CountryInputs : \E order \in Orders(DOMAIN servers) :
        GetOptimalServer(country, order)

\* GetOptimalServer applied to every registry within the bounds.
SpecSel == InitSel /\ [][NextSel]_vars

---------------------------------------------------------------------------
(* ServerManager.mutex: GetOptimalServer against checkServerStatus *)

\* sync.RWMutex.RLock returns when no writer holds the mutex or waits for it.
RLock(m) == [m EXCEPT !.readers = @ + 1]

RUnlock(m) == [m EXCEPT !.readers = @ - 1]

CanRLock(m) == m.writer = "none"

\* A request calls GetOptimalServer(country).
CallGetOptimalServer(g, country) ==
    /\ pc[g].at = "idle"
    /\ pc' = [pc EXCEPT ![g] = [at |-> "RLock", country |-> country]]
    /\ UNCHANGED <<servers, staticPeers, dynamicPeers, nextId, last, mu, created, config, more>>

\* sm.mutex.RLock() at the head of GetOptimalServer; with a country given the
\* next statement is the call of GetServersByCountry.
GetOptimalServerRLock(g) ==
    /\ pc[g].at = "RLock"
    /\ CanRLock(mu)
    /\ mu' = RLock(mu)
    /\ pc' = [pc EXCEPT ![g].at =
                 IF pc[g].country # "" THEN "GetServersByCountry" ELSE "loop"]
    /\ UNCHANGED <<servers, staticPeers, dynamicPeers, nextId, last, created, config, more>>

\* sm.mutex.RLock() at the head of GetServersByCountry, called with the read
\* lock of GetOptimalServer held.
GetServersByCountryRLock(g) ==
    /\ pc[g].at = "GetServersByCountry"
    /\ CanRLock(mu)
    /\ mu' = RLock(mu)
    /\ pc' = [pc EXCEPT ![g].at = "return"]
    /\ UNCHANGED <<servers, staticPeers, dynamicPeers, nextId, last, created, config, more>>

\* GetServersByCountry returns: its deferred RUnlock.
GetServersByCountryRUnlock(g) ==
    /\ pc[g].at = "return"
    /\ mu' = RUnlock(mu)
    /\ pc' = [pc EXCEPT ![g].at = "loop"]
    /\ UNCHANGED <<servers, staticPeers, dynamicPeers, nextId, last, created, config, more>>

\* The candidates and the loop over them, under the read lock.
GetOptimalServerLoop(g, order) ==
    /\ pc[g].at = "loop"
    /\ LET r == GetOptimalServerCall(servers, pc[g].country, order) IN
        last' = Return("GetOptimalServer", r.err, r.server, 0, pc[g].country)
    /\ pc' = [pc EXCEPT ![g].at = "RUnlock"]
    /\ UNCHANGED <<servers, staticPeers, dynamicPeers, nextId, mu, created, config, more>>

\* GetOptimalServer returns: its deferred RUnlock.
GetOptimalServerRUnlock(g) ==
    /\ pc[g].at = "RUnlock"
    /\ mu' = RUnlock(mu)
    /\ pc' = [pc EXCEPT ![g] = Idle]
    /\ UNCHANGED <<servers, staticPeers, dynamicPeers, nextId, last, created, config, more>>

\* The steps of a GetOptimalServer call that has been made.
GetOptimalServerSteps(g) ==
    \/ GetOptimalServerRLock(g)
    \/ GetServersByCountryRLock(g)
    \/ GetServersByCountryRUnlock(g)
    \/ \E order \in Orders(DOMAIN servers) : GetOptimalServerLoop(g, order)
    \/ GetOptimalServerRUnlock(g)

\* The ticker of MonitorServers fires: checkServerStatus is called.
MonitorTick ==
    /\ pc["monitor"].at = "idle"
    /\ pc' = [pc EXCEPT !["monitor"].at = "Lock"]
    /\ UNCHANGED <<servers, staticPeers, dynamicPeers, nextId, last, mu, created, config, more>>

\* sm.mutex.Lock(): the writer announces itself, which makes later RLock calls
\* wait, ...
MonitorLock ==
    /\ pc["monitor"].at = "Lock"
    /\ mu.writer = "none"
    /\ mu' = [mu EXCEPT !.writer = "waiting"]
    /\ pc' = [pc EXCEPT !["monitor"].at = "wait"]
    /\ UNCHANGED <<servers, staticPeers, dynamicPeers, nextId, last, created, config, more>>

\* ... and has the mutex once the readers that held it have left.
MonitorLocked ==
    /\ pc["monitor"].at = "wait"
    /\ mu.readers = 0
    /\ mu' = [mu EXCEPT !.writer = "held"]
    /\ pc' = [pc EXCEPT !["monitor"].at = "probe"]
    /\ UNCHANGED <<servers, staticPeers, dynamicPeers, nextId, last, created, config, more>>

MonitorProbe(up) ==
    /\ pc["monitor"].at = "probe"
    /\ servers' = Probe(servers, up)
    /\ last' = Return("checkServerStatus", "", "", 0, "")
    /\ pc' = [pc EXCEPT !["monitor"].at = "Unlock"]
    /\ UNCHANGED <<staticPeers, dynamicPeers, nextId, mu, created, config, more>>

MonitorUnlock ==
    /\ pc["monitor"].at = "Unlock"
    /\ mu' = [mu EXCEPT !.writer = "none"]
    /\ pc' = [pc EXCEPT !["monitor"] = Idle]
    /\ UNCHANGED <<servers, staticPeers, dynamicPeers, nextId, last, created, config, more>>

MonitorSteps ==
    \/ MonitorTick
    \/ MonitorLock
    \/ MonitorLocked
    \/ \E up \in SUBSET DOMAIN servers : MonitorProbe(up)
    \/ MonitorUnlock

\* The preferred locations of the concurrent requests: none, or one.
LockCountries == {"", "Japan"}

NextLock ==
    \/ \E g \in Selectors, country \in LockCountries : CallGetOptimalServer(g, country)
    \/ \E g \in Selectors : GetOptimalServerSteps(g)
    \/ MonitorSteps

\* Requests selecting a server while MonitorServers runs its cycles, statement
\* by statement.  A goroutine that can take its next step eventually takes it,
\* and a reader that waits in RLock is let in when the writer unlocks (Unlock
\* wakes the waiting readers before the next writer), hence the strong fairness
\* of the requests.
SpecLock ==
    /\ Init
    /\ [][NextLock]_vars
    /\ \A g \in Selectors : SF_vars(GetOptimalServerSteps(g))
    /\ WF_vars(MonitorSteps)

---------------------------------------------------------------------------
(* GenerateConfig: the text generated from a template *)

\* Longest template drawn, in symbols.
MaxTemplate == 2

\* The keys of the placeholder map GenerateConfig builds, three of its seven.
Keys == {"PRIVATE_KEY", "CLIENT_IP", "DNS"}

\* fmt.Sprintf("{{%s}}", key)
Placeholder(key) == "{{" \o key \o "}}"

\* A text is a sequence of symbols: a placeholder token, or text that contains
\* none.
Symbols == {Placeholder(k) : k \in Keys} \cup {"text"}

Templates == UNION {[1..n -> Symbols] : n \in 1..MaxTemplate}

\* The values of the attributes of the peer and of the server configuration.
Values == {<<s>> : s \in Symbols}

\* strings.ReplaceAll(text, old, new), old being a placeholder token.
RECURSIVE ReplaceAll(_, _, _)
ReplaceAll(text, old, new) ==
    IF text = <<>>
    THEN <<>>
    ELSE (IF Head(text) = old THEN new ELSE <<Head(text)>>)
            \o ReplaceAll(Tail(text), old, new)

\* replaceConfigPlaceholders: one ReplaceAll per key, in the order in which the
\* range over the map visits the keys.
RECURSIVE replaceConfigPlaceholders(_, _, _)
replaceConfigPlaceholders(template, replacements, order) ==
    IF order = <<>>
    THEN template
    ELSE replaceConfigPlaceholders(
             ReplaceAll(template, Placeholder(Head(order)), replacements[Head(order)]),
             replacements, Tail(order))

\* A GenerateConfig call for the peer and the configuration of config; the
\* text it returns is appended to config.out.
GenerateConfigText(order) ==
    /\ Len(config.out) < 2
    /\ config' = [config EXCEPT !.out =
           Append(@, replaceConfigPlaceholders(config.template, config.replacements, order))]
    /\ last' = Return("GenerateConfig", "", "", 0, "")
    /\ UNCHANGED <<servers, staticPeers, dynamicPeers, nextId, mu, pc, created, more>>

InitGen ==
    /\ servers = initializeServers
    /\ staticPeers = {}
    /\ dynamicPeers = {}
    /\ nextId = 1
    /\ last = NoCall
    /\ mu = Unlocked
    /\ pc = [g \in Goroutines |-> Idle]
    /\ created = NoCreate
    /\ InitMore
    /\ config \in [template : Templates, replacements : [Keys -> Values], out : {<<>>}]

NextGen == \E order \in Orders(Keys) : GenerateConfigText(order)

\* GenerateConfig called twice on every template and placeholder map within
\* the bounds.
SpecGen == InitGen /\ [][NextGen]_vars

---------------------------------------------------------------------------
(* ServerManager called directly *)

\* AddServer as the second definition of ServerManager has it: the entry of
\* the id is stored, whether the id is registered or not, and nothing is
\* returned.
AddServerOverwrite(id, server) ==
    /\ servers' = [i \in DOMAIN servers \cup {id} |->
                      IF i = id THEN server ELSE servers[i]]
    /\ last' = Return("AddServer", "", id, 0, "")
    /\ UNCHANGED <<staticPeers, dynamicPeers, nextId, aux>>

\* The loads a caller may hand to UpdateServerLoad.
LoadInputs == -1..MaxLoad

\* A call of UpdateServerLoad (both definitions of ServerManager have the same).
UpdateServerLoadOp(id, load) ==
    /\ servers' = UpdateServerLoad(servers, id, load)
    /\ last' = Return("UpdateServerLoad",
                      IF id \in DOMAIN servers THEN "" ELSE "server not found",
                      id, 0, "")
    /\ UNCHANGED <<staticPeers, dynamicPeers, nextId, aux>>

NextReg ==
    \/ \E s \in ServerIds, load \in LoadInputs : UpdateServerLoadOp(s, load)
    \/ \E s \in FleetIds : \E server \in NewServers(s) : AddServer(s, server)
    \/ \E s \in FleetIds : \E server \in NewServers(s) : AddServerOverwrite(s, server)
    \/ \E s \in ServerIds : RemoveServer(s)
    \/ \E s \in ServerIds, st \in Statuses : UpdateServerStatus(s, st)

\* The operations of the registry, of either definition of ServerManager, in
\* any order and with any argument.
SpecReg == Init /\ [][NextReg]_vars

---------------------------------------------------------------------------
(* wgutils: the configurations of dynamic peers *)

\* GenerateDynamicPeerConfig: a new peer id, its directory under
\* DynamicPeerDir/<user>, and in it metadata.json and wg.conf.
GenerateDynamicPeerConfig(userID, serverID) ==
    /\ nextId <= MaxPeers
    /\ nextId' = nextId + 1
    /\ dynamicDir' = dynamicDir \cup
           {[userId |-> userID, id |-> nextId, serverId |-> serverID,
             files |-> {"metadata.json", "wg.conf"}]}
    /\ last' = Return("GenerateDynamicPeerConfig", "", serverID, nextId, "")
    /\ UNCHANGED <<servers, staticPeers, dynamicPeers, mu, pc, created, config,
                   vmMutex, peerMutex, metrics>>

\* RemoveDynamicPeerConfig: "peer not found" when the directory of the peer
\* does not exist; otherwise the metadata is read, removePeer is called with
\* its public key, and the call returns.
RemoveDynamicPeerConfig(userID, peerID) ==
    /\ last' = Return("RemoveDynamicPeerConfig",
                      IF \E d \in dynamicDir : d.userId = userID /\ d.id = peerID
                      THEN ""
                      ELSE "peer not found",
                      "", peerID, "")
    /\ UNCHANGED <<servers, staticPeers, dynamicPeers, nextId, aux>>

NextWg ==
    \/ \E u \in Users, s \in ServerIds : GenerateDynamicPeerConfig(u, s)
    \/ \E u \in Users, p \in PeerIds : RemoveDynamicPeerConfig(u, p)

\* The two calls of wgutils on dynamic peers, in any order.
SpecWg == Init /\ [][NextWg]_vars

---------------------------------------------------------------------------
(* MetricsManager.Close *)

\* Close is called; with metrics disabled it returns at once.
Close(c) ==
    /\ metrics.callers[c] \in {"idle", "returned"}
    /\ IF metrics.isEnabled
       THEN /\ metrics' = [metrics EXCEPT !.callers[c] = "stopCollection"]
            /\ UNCHANGED last
       ELSE /\ metrics' = [metrics EXCEPT !.callers[c] = "returned"]
            /\ last' = Return("Close", "", "", 0, "")
    /\ UNCHANGED <<servers, staticPeers, dynamicPeers, nextId, mu, pc, created, config,
                   vmMutex, peerMutex, dynamicDir>>

\* stopCollection: mm.ticker.Stop().
stopCollection(c) ==
    /\ metrics.callers[c] = "stopCollection"
    /\ metrics' = [metrics EXCEPT !.callers[c] = "send", !.ticker = "stopped"]
    /\ UNCHANGED <<servers, staticPeers, dynamicPeers, nextId, last, mu, pc, created,
                   config, vmMutex, peerMutex, dynamicDir>>

\* mm.done <- true meets case <-mm.done: the channel has no buffer, so the send
\* returns only when the collection goroutine receives in its select; the
\* goroutine then returns.
SendDone(c) ==
    /\ metrics.callers[c] = "send"
    /\ metrics.collector = "select"
    /\ metrics' = [metrics EXCEPT !.callers[c] = "logFile", !.collector = "returned"]
    /\ UNCHANGED <<servers, staticPeers, dynamicPeers, nextId, last, mu, pc, created,
                   config, vmMutex, peerMutex, dynamicDir>>

\* mm.logFile.Close(), whose error Close returns.
CloseLogFile(c) ==
    /\ metrics.callers[c] = "logFile"
    /\ metrics' = [metrics EXCEPT !.callers[c] = "returned", !.logFile = "closed"]
    /\ last' = Return("Close",
                      IF metrics.logFile = "closed" THEN "file already closed" ELSE "",
                      "", 0, "")
    /\ UNCHANGED <<servers, staticPeers, dynamicPeers, nextId, mu, pc, created, config,
                   vmMutex, peerMutex, dynamicDir>>

\* case <-mm.ticker.C of the collection goroutine.
TickerFires ==
    /\ metrics.collector = "select"
    /\ metrics.ticker = "running"
    /\ metrics' = [metrics EXCEPT !.collector = "collect"]
    /\ UNCHANGED <<servers, staticPeers, dynamicPeers, nextId, last, mu, pc, created,
                   config, vmMutex, peerMutex, dynamicDir>>

\* mm.collectMetrics() returns and the goroutine is back in its select.
collectMetrics ==
    /\ metrics.collector = "collect"
    /\ metrics' = [metrics EXCEPT !.collector = "select"]
    /\ last' = Return("collectMetrics", "", "", 0, "")
    /\ UNCHANGED <<servers, staticPeers, dynamicPeers, nextId, mu, pc, created, config,
                   vmMutex, peerMutex, dynamicDir>>

\* The steps of a Close call that has been made.
CloseSteps(c) ==
    \/ stopCollection(c)
    \/ SendDone(c)
    \/ CloseLogFile(c)

\* The steps of the collection goroutine.
CollectionSteps ==
    \/ TickerFires
    \/ collectMetrics

InitMetrics ==
    /\ servers = initializeServers
    /\ staticPeers = {}
    /\ dynamicPeers = {}
    /\ nextId = 1
    /\ last = NoCall
    /\ mu = Unlocked
    /\ pc = [g \in Goroutines |-> Idle]
    /\ created = NoCreate
    /\ config = NoConfig
    /\ vmMutex = Unlocked
    /\ peerMutex = ""
    /\ dynamicDir = NoDynamicDir
    /\ metrics \in {NewMetricsManager(isEnabled) : isEnabled \in BOOLEAN}

NextMetrics ==
    \/ \E c \in Closers : Close(c)
    \/ \E c \in Closers : CloseSteps(c)
    \/ CollectionSteps

\* Close calls on a MetricsManager, enabled or not, statement by statement; a
\* goroutine that can take its next step eventually takes it.
SpecMetrics ==
    /\ InitMetrics
    /\ [][NextMetrics]_vars
    /\ \A c \in Closers : WF_vars(CloseSteps(c))
    /\ WF_vars(CollectionSteps)

---------------------------------------------------------------------------
(* VPNManager's calls as goroutines, statement by statement *)

\* The requests served concurrently, each for its own user.
Clients == {"alice", "bob"}

\* The server the concurrent requests connect to.
Targets == {"us-east-1"}

\* The outcomes of a health-check cycle, as the set of servers that answer:
\* every server but the one the requests connect to, or every server.
Probes == {FleetIds \ Targets, FleetIds}

\* The methods of VPNManager that take vm.mutex for writing.
Writes == {"Connect", "DynamicConnect", "Disconnect", "DynamicDisconnect"}

NoServer == [status |-> "", load |-> 0, capacity |-> 0, country |-> ""]

\* A request outside its call.  Inside: the statement it is about to execute,
\* the method and its arguments, the *Server that GetServer returned, the
\* value of server.Load+1, the error that UpdateServerLoad returned, and the
\* error the call returns.
ClientIdle ==
    [at |-> "idle", op |-> "", serverID |-> "", peerID |-> 0,
     server |-> NoServer, load |-> 0, updateErr |-> "", err |-> ""]

\* sync.RWMutex.Lock returns when no reader and no other writer holds the mutex.
CanLock(m) == m.writer = "none" /\ m.readers = 0

\* The struct a *Server obtained from GetServer points to: the entry of the
\* registry, or, once RemoveServer has deleted the entry, the struct as it was.
Deref(c) ==
    IF pc[c].serverID \in DOMAIN servers
    THEN servers[pc[c].serverID]
    ELSE pc[c].server

\* The Connect and DynamicConnect calls that have not created their peer yet.
Creating == {c \in Clients : pc[c].op \in {"Connect", "DynamicConnect"} /\ pc[c].peerID = 0}

\* A request calls Connect or DynamicConnect (while identifiers are left for
\* the peers of the calls in progress).
CallConnect(c, op, serverID) ==
    /\ pc[c].at = "idle"
    /\ nextId + Cardinality(Creating) <= MaxPeers
    /\ pc' = [pc EXCEPT ![c] = [ClientIdle EXCEPT !.at = "Lock", !.op = op,
                                                  !.serverID = serverID]]
    /\ UNCHANGED <<servers, staticPeers, dynamicPeers, nextId, last, mu, created, config, more>>

\* A request calls Disconnect or DynamicDisconnect.
CallDisconnect(c, op, peerID) ==
    /\ pc[c].at = "idle"
    /\ pc' = [pc EXCEPT ![c] = [ClientIdle EXCEPT !.at = "Lock", !.op = op,
                                                  !.peerID = peerID]]
    /\ UNCHANGED <<servers, staticPeers, dynamicPeers, nextId, last, mu, created, config, more>>

\* A request calls GetStatus or GetConfig.
CallRead(c, op, peerID) ==
    /\ pc[c].at = "idle"
    /\ pc' = [pc EXCEPT ![c] = [ClientIdle EXCEPT !.at = "RLock", !.op = op,
                                                  !.peerID = peerID]]
    /\ UNCHANGED <<servers, staticPeers, dynamicPeers, nextId, last, mu, created, config, more>>

\* vm.mutex.Lock() with the wait for the mutex left out.
VmLockNoWait(c) ==
    /\ pc[c].at = "Lock"
    /\ pc' = [pc EXCEPT ![c].at = IF pc[c].op \in {"Connect", "DynamicConnect"}
                                  THEN "GetServer" ELSE "GetPeer"]
    /\ UNCHANGED <<servers, staticPeers, dynamicPeers, nextId, last, mu, created, config, more>>

\* vm.mutex.Lock(): returns when no reader and no writer holds the mutex.
VmLock(c) ==
    /\ pc[c].at = "Lock"
    /\ CanLock(vmMutex)
    /\ vmMutex' = [vmMutex EXCEPT !.writer = "held"]
    /\ pc' = [pc EXCEPT ![c].at = IF pc[c].op \in {"Connect", "DynamicConnect"}
                                  THEN "GetServer" ELSE "GetPeer"]
    /\ UNCHANGED <<servers, staticPeers, dynamicPeers, nextId, last, mu, created, config,
                   peerMutex, dynamicDir, metrics>>

\* vm.mutex.RLock() of GetStatus and GetConfig.
VmRLock(c) ==
    /\ pc[c].at = "RLock"
    /\ CanRLock(vmMutex)
    /\ vmMutex' = RLock(vmMutex)
    /\ pc' = [pc EXCEPT ![c].at = pc[c].op]
    /\ UNCHANGED <<servers, staticPeers, dynamicPeers, nextId, last, mu, created, config,
                   peerMutex, dynamicDir, metrics>>

\* vm.serverManager.GetServer(serverID): the lookup, under the read lock of
\* ServerManager, which is released when GetServer returns.
ConnectGetServer(c) ==
    /\ pc[c].at = "GetServer"
    /\ CanRLock(mu)
    /\ pc' = [pc EXCEPT ![c] =
                 IF pc[c].serverID \in DOMAIN servers
                 THEN [@ EXCEPT !.at = "Status", !.server = servers[pc[c].serverID]]
                 ELSE [@ EXCEPT !.at = "Unlock", !.err = "server not found"]]
    /\ UNCHANGED <<servers, staticPeers, dynamicPeers, nextId, last, mu, created, config, more>>

\* if server.Status != "online": the field is read through the pointer, with
\* no lock of ServerManager held.
ConnectStatus(c) ==
    /\ pc[c].at = "Status"
    /\ pc' = [pc EXCEPT ![c] =
                 IF Deref(c).status # "online"
                 THEN [@ EXCEPT !.at = "Unlock", !.err = "server is not online"]
                 ELSE [@ EXCEPT !.at = "CreatePeer"]]
    /\ UNCHANGED <<servers, staticPeers, dynamicPeers, nextId, last, mu, created, config, more>>

\* peerMutex.Lock() at the head of CreatePeer, CreateDynamicPeer, RemovePeer
\* and RemoveDynamicPeer.
PeerLock(c) ==
    /\ pc[c].at \in {"CreatePeer", "RemovePeer"}
    /\ peerMutex = ""
    /\ peerMutex' = c
    /\ pc' = [pc EXCEPT ![c].at =
                 IF pc[c].at = "CreatePeer" THEN "savePeerConfig" ELSE "deletePeerConfig"]
    /\ UNCHANGED <<servers, staticPeers, dynamicPeers, nextId, last, mu, created, config,
                   vmMutex, dynamicDir, metrics>>

\* The body of CreatePeer or CreateDynamicPeer and its deferred Unlock.
ConnectCreatePeer(c) ==
    /\ pc[c].at = "savePeerConfig"
    /\ nextId <= MaxPeers
    /\ nextId' = nextId + 1
    /\ IF pc[c].op = "Connect"
       THEN /\ staticPeers' = CreatePeerCall(c, pc[c].serverID, "none").store
            /\ UNCHANGED dynamicPeers
       ELSE /\ dynamicPeers' = CreateDynamicPeerCall(c, pc[c].serverID, "none").store
            /\ UNCHANGED staticPeers
    /\ peerMutex' = ""
    /\ pc' = [pc EXCEPT ![c].at = "Load", ![c].peerID = nextId]
    /\ UNCHANGED <<servers, last, mu, created, config, vmMutex, dynamicDir, metrics>>

\* The argument server.Load+1 of UpdateServerLoad, read through the pointer.
ConnectReadLoad(c) ==
    /\ pc[c].at = "Load"
    /\ pc' = [pc EXCEPT ![c].at = "UpdateServerLoad", ![c].load = ConnectLoad(Deref(c))]
    /\ UNCHANGED <<servers, staticPeers, dynamicPeers, nextId, last, mu, created, config, more>>

\* vm.serverManager.UpdateServerLoad(serverID, server.Load+1), under the write
\* lock of ServerManager; its error is not looked at.
ConnectUpdateServerLoad(c) ==
    /\ pc[c].at = "UpdateServerLoad"
    /\ CanLock(mu)
    /\ servers' = UpdateServerLoad(servers, pc[c].serverID, pc[c].load)
    /\ pc' = [pc EXCEPT ![c].at = "Unlock",
                        ![c].updateErr = IF pc[c].serverID \in DOMAIN servers
                                         THEN "" ELSE "server not found"]
    /\ UNCHANGED <<staticPeers, dynamicPeers, nextId, last, mu, created, config, more>>

\* vm.peerManager.GetPeer(userID, peerID) of Disconnect and DynamicDisconnect.
DisconnectGetPeer(c) ==
    /\ pc[c].at = "GetPeer"
    /\ pc' = [pc EXCEPT ![c] =
                 IF GetPeer(c, pc[c].peerID) = NoPeer
                 THEN [@ EXCEPT !.at = "Unlock", !.err = "peer not found"]
                 ELSE [@ EXCEPT !.at = "RemovePeer",
                                !.serverID = GetPeer(c, pc[c].peerID).serverId]]
    /\ UNCHANGED <<servers, staticPeers, dynamicPeers, nextId, last, mu, created, config, more>>

\* The body of RemovePeer or RemoveDynamicPeer and its deferred Unlock.
DisconnectRemovePeer(c) ==
    /\ pc[c].at = "deletePeerConfig"
    /\ peerMutex' = ""
    /\ IF pc[c].op = "Disconnect"
       THEN /\ staticPeers' = RemovePeerCall(c, pc[c].peerID, "none").store
            /\ UNCHANGED dynamicPeers
            /\ pc' = [pc EXCEPT ![c] =
                         IF RemovePeerCall(c, pc[c].peerID, "none").err # ""
                         THEN [@ EXCEPT !.at = "Unlock", !.err = "failed to remove peer"]
                         ELSE [@ EXCEPT !.at = "ResetLoad"]]
       ELSE /\ dynamicPeers' = RemoveDynamicPeerCall(c, pc[c].peerID, "none").store
            /\ UNCHANGED staticPeers
            /\ pc' = [pc EXCEPT ![c] =
                         IF RemoveDynamicPeerCall(c, pc[c].peerID, "none").err # ""
                         THEN [@ EXCEPT !.at = "Unlock", !.err = "failed to remove dynamic peer"]
                         ELSE [@ EXCEPT !.at = "ResetLoad"]]
    /\ UNCHANGED <<servers, nextId, last, mu, created, config, vmMutex, dynamicDir, metrics>>

\* vm.serverManager.UpdateServerLoad(peer.ServerID, 0).
DisconnectUpdateServerLoad(c) ==
    /\ pc[c].at = "ResetLoad"
    /\ CanLock(mu)
    /\ servers' = UpdateServerLoad(servers, pc[c].serverID, 0)
    /\ pc' = [pc EXCEPT ![c].at = "Unlock"]
    /\ UNCHANGED <<staticPeers, dynamicPeers, nextId, last, mu, created, config, more>>

\* The return of a writing call with its deferred Unlock left out.
VmReturnLocked(c) ==
    /\ pc[c].at = "Unlock"
    /\ pc' = [pc EXCEPT ![c] = ClientIdle]
    /\ UNCHANGED <<servers, staticPeers, dynamicPeers, nextId, last, mu, created, config, more>>

\* The return of Connect, DynamicConnect, Disconnect or DynamicDisconnect, with
\* the deferred vm.mutex.Unlock().
VmUnlock(c) ==
    /\ pc[c].at = "Unlock"
    /\ vmMutex' = [vmMutex EXCEPT !.writer = "none"]
    /\ pc' = [pc EXCEPT ![c] = ClientIdle]
    /\ UNCHANGED <<servers, staticPeers, dynamicPeers, nextId, last, mu, created, config,
                   peerMutex, dynamicDir, metrics>>

\* The body of GetStatus: GetPeers, and GetServer (read lock of ServerManager)
\* for each peer.
GetStatusBody(c) ==
    /\ pc[c].at = "GetStatus"
    /\ GetPeers(c) # {} => CanRLock(mu)
    /\ pc' = [pc EXCEPT ![c].at = "RUnlock", ![c].err = GetStatusCall(c).err]
    /\ UNCHANGED <<servers, staticPeers, dynamicPeers, nextId, last, mu, created, config, more>>

\* The body of GetConfig: GetPeer and GenerateConfig.
GetConfigBody(c) ==
    /\ pc[c].at = "GetConfig"
    /\ pc' = [pc EXCEPT ![c].at = "RUnlock",
                        ![c].err = IF GetPeer(c, pc[c].peerID) = NoPeer
                                   THEN "peer not found" ELSE ""]
    /\ UNCHANGED <<servers, staticPeers, dynamicPeers, nextId, last, mu, created, config, more>>

\* The return of GetStatus or GetConfig, with the deferred vm.mutex.RUnlock().
VmRUnlock(c) ==
    /\ pc[c].at = "RUnlock"
    /\ vmMutex' = RUnlock(vmMutex)
    /\ pc' = [pc EXCEPT ![c] = ClientIdle]
    /\ UNCHANGED <<servers, staticPeers, dynamicPeers, nextId, last, mu, created, config,
                   peerMutex, dynamicDir, metrics>>

\* The steps of a call that has been made.
ClientSteps(c) ==
    \/ VmLock(c)
    \/ VmRLock(c)
    \/ ConnectGetServer(c)
    \/ ConnectStatus(c)
    \/ PeerLock(c)
    \/ ConnectCreatePeer(c)
    \/ ConnectReadLoad(c)
    \/ ConnectUpdateServerLoad(c)
    \/ DisconnectGetPeer(c)
    \/ DisconnectRemovePeer(c)
    \/ DisconnectUpdateServerLoad(c)
    \/ VmUnlock(c)
    \/ GetStatusBody(c)
    \/ GetConfigBody(c)
    \/ VmRUnlock(c)

\* RemoveServer called by another goroutine, under the write lock of
\* ServerManager.  The struct of the entry stays where the pointers held by
\* the calls in progress find it.
RemoveServerConcurrently(id) ==
    /\ CanLock(mu)
    /\ id \in DOMAIN servers
    /\ servers' = [i \in DOMAIN servers \ {id} |-> servers[i]]
    /\ pc' = [g \in DOMAIN pc |->
                 IF g \in Clients /\ pc[g].serverID = id /\ pc[g].server # NoServer
                 THEN [pc[g] EXCEPT !.server = servers[id]]
                 ELSE pc[g]]
    /\ UNCHANGED <<staticPeers, dynamicPeers, nextId, last, mu, created, config, more>>

InitCalls ==
    /\ servers = initializeServers
    /\ staticPeers = {}
    /\ dynamicPeers = {}
    /\ nextId = 1
    /\ last = NoCall
    /\ mu = Unlocked
    /\ pc = [g \in Clients \cup {"monitor"} |-> IF g \in Clients THEN ClientIdle ELSE Idle]
    /\ created = NoCreate
    /\ config = NoConfig
    /\ InitMore

NextCalls ==
    \/ \E c \in Clients, op \in {"Connect", "DynamicConnect"}, s \in Targets :
           CallConnect(c, op, s)
    \/ \E c \in Clients, op \in {"Disconnect", "DynamicDisconnect"}, p \in PeerIds :
           CallDisconnect(c, op, p)
    \/ \E c \in Clients : CallRead(c, "GetStatus", 0)
    \/ \E c \in Clients, p \in PeerIds : CallRead(c, "GetConfig", p)
    \/ \E c \in Clients : ClientSteps(c)
    \/ MonitorTick
    \/ MonitorLock
    \/ MonitorLocked
    \/ \E up \in Probes : MonitorProbe(up \cap DOMAIN servers)
    \/ MonitorUnlock
    \/ \E s \in Targets : RemoveServerConcurrently(s)

\* Concurrent requests, MonitorServers and a goroutine that removes servers.
SpecCalls == InitCalls /\ [][NextCalls]_vars


\* The six methods called concurrently, while MonitorServers runs: one request
\* uses the static peers and reads its status, the other the dynamic peers and
\* reads a configuration.
NextLive ==
    \/ \E s \in Targets : CallConnect("alice", "Connect", s)
    \/ \E s \in Targets : CallConnect("bob", "DynamicConnect", s)
    \/ \E p \in PeerIds : CallDisconnect("alice", "Disconnect", p)
    \/ \E p \in PeerIds : CallDisconnect("bob", "DynamicDisconnect", p)
    \/ CallRead("alice", "GetStatus", 0)
    \/ \E p \in PeerIds : CallRead("bob", "GetConfig", p)
    \/ \E c \in Clients : ClientSteps(c)
    \/ MonitorTick
    \/ MonitorLock
    \/ MonitorLocked
    \/ \E up \in Probes : MonitorProbe(up \cap DOMAIN servers)
    \/ MonitorUnlock

\* A goroutine that can take its next step eventually takes it; a goroutine
\* waiting for a mutex gets it when the mutex is released again and again.
SpecLive ==
    /\ InitCalls
    /\ [][NextLive]_vars
    /\ \A c \in Clients : SF_vars(ClientSteps(c))
    /\ WF_vars(MonitorSteps)

---------------------------------------------------------------------------
(* PeerManager instances and the package's peerMutex *)

\* The PeerManager instances of the process, each used by one goroutine.
Managers == {"manager1", "manager2"}

\* A goroutine outside the PeerManager; inside: the statement it is about to
\* execute, the method and its arguments.
ManagerIdle == [at |-> "idle", op |-> "", userID |-> "", serverID |-> "", peerID |-> 0]

\* The create calls that have not saved their peer yet.
Saving ==
    {m \in Managers : pc[m].op \in {"CreatePeer", "CreateDynamicPeer"} /\ pc[m].at # "Unlock"}

\* A goroutine calls CreatePeer, CreateDynamicPeer, RemovePeer or
\* RemoveDynamicPeer of its PeerManager.
CallPeerManager(m, op, userID, serverID, peerID) ==
    /\ pc[m].at = "idle"
    /\ op \in {"CreatePeer", "CreateDynamicPeer"} => nextId + Cardinality(Saving) <= MaxPeers
    /\ pc' = [pc EXCEPT ![m] = [at |-> "Lock", op |-> op, userID |-> userID,
                                serverID |-> serverID, peerID |-> peerID]]
    /\ UNCHANGED <<servers, staticPeers, dynamicPeers, nextId, last, mu, created, config, more>>

\* peerMutex.Lock() with the wait for the mutex left out.
PeerMutexLockNoWait(m) ==
    /\ pc[m].at = "Lock"
    /\ peerMutex' = m
    /\ pc' = [pc EXCEPT ![m].at = "locked"]
    /\ UNCHANGED <<servers, staticPeers, dynamicPeers, nextId, last, mu, created, config,
                   vmMutex, dynamicDir, metrics>>

\* peerMutex.Lock(): the mutex is a variable of the package, one for all the
\* PeerManager instances.
PeerMutexLock(m) ==
    /\ pc[m].at = "Lock"
    /\ peerMutex = ""
    /\ peerMutex' = m
    /\ pc' = [pc EXCEPT ![m].at = "locked"]
    /\ UNCHANGED <<servers, staticPeers, dynamicPeers, nextId, last, mu, created, config,
                   vmMutex, dynamicDir, metrics>>

\* The body of the method, between Lock and the deferred Unlock.
PeerMutation(m) ==
    /\ pc[m].at = "locked"
    /\ pc' = [pc EXCEPT ![m].at = "Unlock"]
    /\ CASE pc[m].op = "CreatePeer" ->
                /\ nextId <= MaxPeers
                /\ nextId' = nextId + 1
                /\ staticPeers' = CreatePeerCall(pc[m].userID, pc[m].serverID, "none").store
                /\ UNCHANGED dynamicPeers
         [] pc[m].op = "CreateDynamicPeer" ->
                /\ nextId <= MaxPeers
                /\ nextId' = nextId + 1
                /\ dynamicPeers' =
                       CreateDynamicPeerCall(pc[m].userID, pc[m].serverID, "none").store
                /\ UNCHANGED staticPeers
         [] pc[m].op = "RemovePeer" ->
                /\ staticPeers' = RemovePeerCall(pc[m].userID, pc[m].peerID, "none").store
                /\ UNCHANGED <<dynamicPeers, nextId>>
         [] pc[m].op = "RemoveDynamicPeer" ->
                /\ dynamicPeers' =
                       RemoveDynamicPeerCall(pc[m].userID, pc[m].peerID, "none").store
                /\ UNCHANGED <<staticPeers, nextId>>
    /\ UNCHANGED <<servers, last, mu, created, config, more>>

\* The deferred peerMutex.Unlock() and the return.
PeerMutexUnlock(m) ==
    /\ pc[m].at = "Unlock"
    /\ peerMutex' = ""
    /\ pc' = [pc EXCEPT ![m] = ManagerIdle]
    /\ UNCHANGED <<servers, staticPeers, dynamicPeers, nextId, last, mu, created, config,
                   vmMutex, dynamicDir, metrics>>

InitPeerLock ==
    /\ servers = initializeServers
    /\ staticPeers = {}
    /\ dynamicPeers = {}
    /\ nextId = 1
    /\ last = NoCall
    /\ mu = Unlocked
    /\ pc = [m \in Managers |-> ManagerIdle]
    /\ created = NoCreate
    /\ config = NoConfig
    /\ InitMore

NextPeerLock ==
    \/ \E m \in Managers, op \in {"CreatePeer", "CreateDynamicPeer"}, u \in Users, s \in Targets :
           CallPeerManager(m, op, u, s, 0)
    \/ \E m \in Managers, op \in {"RemovePeer", "RemoveDynamicPeer"}, u \in Users, p \in PeerIds :
           CallPeerManager(m, op, u, "", p)
    \/ \E m \in Managers : PeerMutexLock(m)
    \/ \E m \in Managers : PeerMutation(m)
    \/ \E m \in Managers : PeerMutexUnlock(m)

\* Goroutines that call the PeerManager instances directly.
SpecPeerLock == InitPeerLock /\ [][NextPeerLock]_vars

---------------------------------------------------------------------------
(* Claims *)

\* C1: no two stored peers share a public key or an allocated address,
\* whatever sequence of CreatePeer and CreateDynamicPeer calls produced them.
C1_DistinctKeysAndAddresses ==
    \A p, q \in AllPeers :
        p # q => p.publicKey # q.publicKey /\ p.ip # q.ip

\* C2: after any sequence of Connect, DynamicConnect, Disconnect and
\* DynamicDisconnect calls with no fault, the load of every server is the
\* number of stored peers whose ServerID is that server.
C2_LoadIsPeerCount ==
    \A s \in DOMAIN servers :
        servers[s].load = Cardinality({p \in AllPeers : p.serverId = s})

\* C3: the load of a server never exceeds its capacity.
C3_LoadWithinCapacity ==
    \A s \in DOMAIN servers : servers[s].load <= servers[s].capacity

\* C4: starting from loads of 0, no sequence of Connect, DynamicConnect,
\* Disconnect and DynamicDisconnect calls makes a server's load negative.
C4_LoadNeverNegative ==
    \A s \in DOMAIN servers : servers[s].load >= 0

\* C4's case: a Disconnect has succeeded and written the load of a server
\* that still has a stored peer.
C4_Witness ==
    /\ last.op \in {"Disconnect", "DynamicDisconnect"}
    /\ last.err = ""
    /\ \E p \in AllPeers : p.serverId = last.server
    /\ servers[last.server].load = 0

\* C5: a Connect or DynamicConnect that returns an error leaves the peer
\* store and every server's load as they were before the call.
C5_FailedConnectChangesNothing ==
    [][(last'.op \in {"Connect", "DynamicConnect"} /\ last'.err # "")
        => (staticPeers' = staticPeers /\ dynamicPeers' = dynamicPeers
            /\ servers' = servers)]_vars

C8_PeersReferenceRegisteredServers ==
    \A p \in AllPeers : p.serverId \in DOMAIN servers

\* C9: a server returned by GetOptimalServer, for any preferred location, is
\* online and has a load strictly below its capacity.
C9_OptimalIsOnlineBelowCapacity ==
    (last.op = "GetOptimalServer" /\ last.err = "")
        => /\ servers[last.server].status = "online"
           /\ servers[last.server].load < servers[last.server].capacity

Available(id) ==
    /\ servers[id].status = "online"
    /\ servers[id].load < servers[id].capacity

\* The registry {A: load 3/cap 10 online, B: load 1/cap 10 online,
\* C: load 0/cap 10 offline}, with A = us-east-1, B = us-west-1 and
\* C = ap-northeast-1.
ExampleRegistry ==
    [id \in ServerIds |->
        [status   |-> IF id = "ap-northeast-1" THEN "offline" ELSE "online",
         load     |-> IF id = "us-east-1" THEN 3
                      ELSE IF id = "us-west-1" THEN 1 ELSE 0,
         capacity |-> 10,
         country  |-> CountryOf(id)]]

\* C10: with no preferred location, GetOptimalServer returns an online server
\* below capacity whose load is at most that of every online server below
\* capacity (and returns one whenever there is one), and it returns B for the
\* example registry.
C10_OptimalHasLowestLoad ==
    (last.op = "GetOptimalServer" /\ last.country = "")
        => /\ last.err = ""
              => /\ Available(last.server)
                 /\ \A id \in DOMAIN servers :
                        Available(id) => servers[last.server].load <= servers[id].load
           /\ (\E id \in DOMAIN servers : Available(id)) => last.err = ""
           /\ servers = ExampleRegistry
              => (last.err = "" /\ last.server = "us-west-1")

\* C10's case: GetOptimalServer("") has returned B for the example registry.
C10_Witness ==
    /\ last.op = "GetOptimalServer"
    /\ last.country = ""
    /\ servers = ExampleRegistry
    /\ last.server = "us-west-1"

\* C11: when a preferred location is given and no server of that location is
\* online below capacity, GetOptimalServer falls back to the online servers of
\* the whole registry: it returns an error only if none of them is below
\* capacity.
C11_FallsBackToOnlineSet ==
    (/\ last.op = "GetOptimalServer"
     /\ last.country # ""
     /\ ~ \E id \in DOMAIN servers :
            servers[id].country = last.country /\ Available(id))
        => (last.err # "" => ~ \E id \in DOMAIN servers : Available(id))

\* C12: a Connect or DynamicConnect to a server id that is not in the registry,
\* or to a server whose status is not online, returns an error and has no side
\* effect: no peer is saved, no identifier is drawn for one (so no
\* configuration is applied), and the registry with its loads is unchanged.
C12_InvalidServerNoSideEffect ==
    [][(/\ last'.op \in {"Connect", "DynamicConnect"}
        /\ \/ last'.server \notin DOMAIN servers
           \/ servers[last'.server].status # "online")
        => (/\ last'.err \in {"server not found", "server is not online"}
            /\ staticPeers' = staticPeers
            /\ dynamicPeers' = dynamicPeers
            /\ nextId' = nextId
            /\ servers' = servers)]_vars

\* C12's case: with a peer stored, a Connect or DynamicConnect has been
\* refused because the server is registered but not online.
C12_Witness ==
    /\ last.op \in {"Connect", "DynamicConnect"}
    /\ last.err = "server is not online"
    /\ last.server \in DOMAIN servers
    /\ AllPeers # {}

\* C13: RemovePeer removes the peer whichever namespace holds it, so a
\* Disconnect fails only when GetPeer finds no peer: for a peer GetPeer can
\* find, one created by DynamicConnect included, it succeeds.
C13_DisconnectSucceedsForFoundPeers ==
    last.op = "Disconnect" => last.err \in {"", "peer not found"}

\* C14: a GetOptimalServer call always eventually returns while health-check
\* cycles run concurrently.
C14_GetOptimalServerReturns ==
    \A g \in Selectors : (pc[g].at # "idle") ~> (pc[g].at = "idle")

\* The addresses and the public keys held by the peers of the two stores.
AllocatedAddresses(static, dynamic) == {p.ip : p \in static \cup dynamic}

AllocatedKeys(static, dynamic) == {p.publicKey : p \in static \cup dynamic}

\* C15: a CreatePeer immediately followed by a successful RemovePeer of the
\* peer it created leaves the stored peers, the allocated addresses and the
\* allocated public keys as they were before the CreatePeer.
C15_CreateThenRemoveRestores ==
    [][(/\ last.op = "CreatePeer"
        /\ last'.op = "RemovePeer"
        /\ last'.peer = last.peer
        /\ last'.err = "")
        => (/\ staticPeers' = created.static
            /\ dynamicPeers' = created.dynamic
            /\ AllocatedAddresses(staticPeers', dynamicPeers')
                 = AllocatedAddresses(created.static, created.dynamic)
            /\ AllocatedKeys(staticPeers', dynamicPeers')
                 = AllocatedKeys(created.static, created.dynamic))]_vars

\* C15's case: with a peer already stored, a second one has been created and
\* then removed with success, and the store is what it was before.
C15_Witness ==
    /\ last.op = "RemovePeer"
    /\ last.err = ""
    /\ last.peer = created.peer
    /\ created.static # {}
    /\ staticPeers = created.static

\* C16: two GenerateConfig calls on the same peer, template and server
\* configuration return the same text, whatever the attribute values are,
\* values that contain a placeholder token included.
C16_GenerateConfigIsDeterministic ==
    Len(config.out) = 2 => config.out[1] = config.out[2]

\* C17: AddServer called with an id that is registered returns an error and
\* leaves the registry unchanged.
C17_AddServerRejectsDuplicate ==
    [][(last'.op = "AddServer" /\ last'.server \in DOMAIN servers)
        => (last'.err # "" /\ servers' = servers)]_vars

\* C18: UpdateServerLoad never stores a negative load.
C18_UpdateNeverStoresNegative ==
    (last.op = "UpdateServerLoad" /\ last.err = "")
        => servers[last.server].load >= 0

\* C19: GetStatus and GetConfig are read-only: after either call, whether it
\* succeeds or fails, the peer stores and the registry, with every server's
\* load and status, are what they were before the call.
C19_StatusAndConfigReadOnly ==
    [][last'.op \in {"GetStatus", "GetConfig"}
        => (/\ staticPeers' = staticPeers
            /\ dynamicPeers' = dynamicPeers
            /\ servers' = servers)]_vars

\* C19's case: GetStatus has failed, a peer being stored whose server has been
\* removed from the registry.
C19_Witness ==
    /\ last.op = "GetStatus"
    /\ last.err # ""
    /\ \E p \in AllPeers : p.serverId \notin DOMAIN servers

\* C20: for every user, the status view reports connected exactly when the
\* user has a stored peer, static or dynamic, and lists exactly the user's
\* stored peers, also when servers have been removed from the registry.
C20_StatusViewMatchesStore ==
    \A u \in Users :
        /\ StatusHandler(u).connected <=> (\E p \in AllPeers : p.userId = u)
        /\ StatusHandler(u).peers = {p.id : p \in {q \in AllPeers : q.userId = u}}

\* The place of a server id in the order of the ids.
IdRank(id) ==
    CASE id = "ap-northeast-1" -> 1
      [] id = "us-east-1" -> 2
      [] OTHER -> 3

\* The candidates of GetOptimalServer that are below capacity, as a set.
EligibleCandidates(country) ==
    LET order == CHOOSE o \in Orders(DOMAIN servers) : TRUE
        candidates == Candidates(servers, country, order)
    IN  {id \in {candidates[i] : i \in DOMAIN candidates} :
            servers[id].load < servers[id].capacity}

\* C25: when several candidates share the lowest load, GetOptimalServer returns
\* the one with the lowest server id.
C25_TieBrokenByLowestId ==
    (last.op = "GetOptimalServer" /\ last.err = "")
        => \A id \in EligibleCandidates(last.country) :
               servers[id].load = servers[last.server].load
                   => IdRank(last.server) <= IdRank(id)

\* C28: a health-check cycle changes a status only between online and offline:
\* a server in maintenance is still in maintenance after the cycle.
C28_HealthCheckKeepsMaintenance ==
    [][last'.op = "checkServerStatus"
        => \A s \in DOMAIN servers :
               servers[s].status = "maintenance"
                   => servers'[s].status = "maintenance"]_vars

\* C29: after RemoveDynamicPeerConfig(userID, peerID) has returned success the
\* peer is no longer in the dynamic store, so that a second call for it
\* returns the peer-not-found error.
C29_RemovedDynamicPeerIsGone ==
    (last.op = "RemoveDynamicPeerConfig" /\ last.err = "")
        => ~ \E d \in dynamicDir : d.id = last.peer

\* C30: every Close call on an enabled MetricsManager eventually returns, a
\* Close made after an earlier Close has stopped the collection goroutine
\* included.
C30_CloseReturns ==
    \A c \in Closers :
        (metrics.isEnabled /\ metrics.callers[c] \notin {"idle", "returned"})
            ~> (metrics.callers[c] = "returned")


\* C21: a Connect or DynamicConnect whose UpdateServerLoad found the server
\* removed (removed after the validation) returns an error and has removed the
\* peer it created.
C21_RemovedServerFailsConnect ==
    \A c \in Clients :
        (pc[c].at = "Unlock" /\ pc[c].op \in {"Connect", "DynamicConnect"}
                             /\ pc[c].updateErr # "")
            => (pc[c].err # "" /\ GetPeer(c, pc[c].peerID) = NoPeer)

\* C22: no load update of concurrent Connect and DynamicConnect calls is lost:
\* the UpdateServerLoad of each call leaves the server's load exactly one
\* higher than the load it found.
C22_NoLostLoadUpdate ==
    [][\A c \in Clients :
          (/\ pc[c].at = "UpdateServerLoad"
           /\ pc'[c].at = "Unlock"
           /\ pc[c].serverID \in DOMAIN servers)
              => servers'[pc[c].serverID].load = servers[pc[c].serverID].load + 1]_vars

\* A second connect call waits for vm.mutex while the first one is between
\* its read of server.Load and its UpdateServerLoad.
C22_Witness ==
    \E c, d \in Clients :
        /\ c # d
        /\ pc[c].at = "UpdateServerLoad"
        /\ pc[c].serverID \in DOMAIN servers
        /\ pc[d].at = "Lock"
        /\ pc[d].op \in {"Connect", "DynamicConnect"}
        /\ pc[d].serverID = pc[c].serverID

\* C23: no read of a server's Status happens without the ServerManager mutex
\* while a health check is writing it: never is a call about to read
\* server.Status, outside GetServer's lock, while checkServerStatus is about
\* to write the Status of the same registered server.
C23_StatusReadUnderLock ==
    ~ \E c \in Clients :
          /\ pc[c].at = "Status"
          /\ pc[c].serverID \in DOMAIN servers
          /\ pc["monitor"].at = "probe"

\* C26: at the moment Connect or DynamicConnect saves a peer, the peer's
\* server is registered and online.
C26_SavedPeerServerOnline ==
    [][\A c \in Clients :
          (pc[c].at = "savePeerConfig" /\ pc'[c].at = "Load")
              => (/\ pc[c].serverID \in DOMAIN servers
                  /\ servers[pc[c].serverID].status = "online")]_vars

\* The locks a call holds, in the order VPNManager mutex first: the peer mutex
\* is held only by a call that holds vm.mutex for writing, and a call at a
\* statement that takes the ServerManager mutex does not hold the peer mutex.
LockOrder ==
    \A c \in Clients :
        /\ peerMutex = c => (vmMutex.writer = "held" /\ pc[c].op \in Writes)
        /\ pc[c].at \in {"GetServer", "UpdateServerLoad", "ResetLoad", "GetStatus"}
               => peerMutex # c

\* C27: concurrent Connect, DynamicConnect, Disconnect, DynamicDisconnect,
\* GetStatus, GetConfig and health checks never deadlock: the locks are taken
\* in the order VPNManager mutex, then peer mutex or ServerManager mutex, and
\* under fair scheduling every call that was made returns.
C27_NoDeadlock ==
    /\ []LockOrder
    /\ \A c \in Clients : (pc[c].at # "idle") ~> (pc[c].at = "idle")

\* A call that holds vm.mutex waits for the ServerManager mutex, held by the
\* health check, while the other request waits for vm.mutex.
C27_Witness ==
    \E c, d \in Clients :
        /\ c # d
        /\ pc[c].at \in {"UpdateServerLoad", "ResetLoad"}
        /\ pc["monitor"].at = "probe"
        /\ pc[d].at \in {"Lock", "RLock"}


\* C24: the peer mutations are mutually exclusive across all the PeerManager
\* instances: at most one goroutine is between peerMutex.Lock() and
\* peerMutex.Unlock() of CreatePeer, CreateDynamicPeer, RemovePeer or
\* RemoveDynamicPeer.
C24_PeerMutationsExclusive ==
    Cardinality({m \in Managers : pc[m].at \in {"locked", "Unlock"}}) <= 1

\* One instance mutates the store while a call on the other instance waits
\* for peerMutex.
C24_Witness ==
    \E m, n \in Managers :
        /\ m # n
        /\ pc[m].at = "locked"
        /\ peerMutex = m
        /\ pc[n].at = "Lock"

====
